---- MODULE Spec2Model ----
(***************************************************************************)
(* TradingView -> Kite ATM options bridge (src/main.py).                   *)
(*                                                                         *)
(* The module-level state of main.py (_seen, _instruments, _last_reload),  *)
(* the webhook handler and the helpers it calls.  The handler is an        *)
(* `async def` served by one event loop: it suspends only at               *)
(* `await req.json()` (line 120); from line 128 to its return it runs      *)
(* without yielding, so no other handler runs in between, while the wall   *)
(* clock and the broker keep changing underneath it.                       *)
(*                                                                         *)
(* Optional values (None | x) are sets with at most one element.           *)
(* Instants are whole seconds of local time; dates are day numbers.        *)
(***************************************************************************)
EXTENDS Integers, Sequences, FiniteSets, Bags, TLC

VARIABLES
    _seen,          \* keys of _seen                                (line 32)
    _instruments,   \* _instruments: {} is None, {chain} a snapshot (line 33)
    _last_reload,   \* _last_reload                                 (line 34)
    now,           \* the wall clock read by time.time() / datetime.now()
    inflight,      \* bag of payloads of requests suspended at line 120
    cur,           \* the handler that holds the event loop (or held it last)
    admitted,      \* per identity key: handlers that passed the check of line 130
    placed         \* per identity key: place_order calls issued

vars == <<_seen, _instruments, _last_reload, now, inflight, cur, admitted, placed>>

----------------------------------------------------------------------------
(* Bounds of the model *)

MaxInflight == 2      \* requests suspended at `await req.json()` at once
MaxChain == 2         \* instruments in one broker instruments("NFO") reply
MaxPositions == 2     \* positions in one broker positions() reply
MaxPrice == 80        \* prices given to round_to_step on its own, either sign
MaxStep == 6          \* strike steps given to round_to_step on its own

----------------------------------------------------------------------------
(* Program constants *)

TTL == 300
STRIKE_STEP == [r \in {"FINNIFTY", "MIDCPNIFTY"} |->
                  IF r = "FINNIFTY" THEN 50 ELSE 25]
TV_MAP == [t \in {"NSE:CNXFINANCE", "NSE:NIFTY_MID_SELECT", "NSE:MIDCPNIFTY"} |->
             IF t = "NSE:CNXFINANCE" THEN "FINNIFTY" ELSE "MIDCPNIFTY"]
ALLOWED_TV == DOMAIN TV_MAP
SIDES == {"LONG", "SHORT", "EXIT"}
\* the neighbours tried below the target first
OffsetsDownFirst == <<0, -1, 1, -2, 2>>
OFFSETS == <<0, 1, -1, 2, -2>>
OPEN_TIME == 9 * 3600 + 15 * 60
CLOSE_TIME == 15 * 3600 + 29 * 60

----------------------------------------------------------------------------
(* The clock *)

DAY == 24 * 3600
TODAY == 1            \* the day number of the modelled trading day
TimeOfDay(t) == t % DAY
DateOf(t) == t \div DAY
At(h, m, s) == TODAY * DAY + h * 3600 + m * 60 + s

\* The instants around the session's opening and closing.
SessionEdges == { At(9, 14, 59), At(9, 15, 0), At(15, 29, 0), At(15, 29, 1) }

\* The opening and the instants one TTL, and a second more, after it.
RefreshEdges == { At(9, 15, 0), At(9, 20, 0), At(9, 20, 1) }

\* The last instant of the session and the first one after it.
CloseEdges == { At(15, 29, 0), At(15, 29, 1) }

ClockValues == SessionEdges \cup RefreshEdges

\* a gate that is always open
AlwaysOpen(t) == TRUE
market_open_ist(t) ==
    /\ OPEN_TIME <= TimeOfDay(t)
    /\ TimeOfDay(t) <= CLOSE_TIME

----------------------------------------------------------------------------
(* Payloads *)

SignalIds == {1, 2}
RawSymbols ==
    {"NSE:CNXFINANCE", " NSE:CNXFINANCE ", "NSE:NIFTY_MID_SELECT",
     "NSE:MIDCPNIFTY", "NSE:BANKNIFTY"}
RawSides == {"LONG", "short", "EXIT", "HOLD"}
Prices == {21034, 21075, 20960, 21140}

\* str(side).upper()
Upper(s) == IF s = "short" THEN "SHORT" ELSE s

\* str(index_tv).strip(): drops the blanks around the symbol
Strip(s) == IF s = " NSE:CNXFINANCE " THEN "NSE:CNXFINANCE" ELSE s

\* a key made of the identifier and the option root
SidByRoot(id, tv) ==
    <<id, IF tv = "NSE:NIFTY_MID_SELECT" THEN "NSE:MIDCPNIFTY" ELSE tv>>

\* f"{signal_id}::{tv}": the pair; the text is one-to-one on numerals and
\* on symbols that hold no "::"
MakeSid(id, tv) == <<id, tv>>

Payload(id, tv, side, price) ==
    [signal_id |-> id, index_tv |-> tv, side |-> side, price |-> price]

\* Signal 1 for every symbol and side, and signal 2 as a second entry signal.
GatePayloads ==
    { Payload(1, tv, side, 21034) : tv \in RawSymbols, side \in RawSides }
      \cup { Payload(2, "NSE:CNXFINANCE", "LONG", 21034) }

\* Entry signal 1 at every price and of both sides, and signal 2 as a
\* second entry signal.
EntryPayloads ==
    { Payload(1, "NSE:CNXFINANCE", "LONG", px) : px \in Prices }
      \cup { Payload(1, "NSE:CNXFINANCE", "short", 21034),
             Payload(2, "NSE:CNXFINANCE", "LONG", 21034) }

\* Exit signals.
ExitPayloads ==
    { Payload(1, "NSE:CNXFINANCE", "EXIT", 21034),
      Payload(1, "NSE:MIDCPNIFTY", "EXIT", 21034) }

\* Signals that may be in flight together.
RacePayloads ==
    { Payload(1, "NSE:CNXFINANCE", "EXIT", 21034),
      Payload(1, "NSE:CNXFINANCE", "LONG", 21034),
      Payload(2, "NSE:CNXFINANCE", "LONG", 21034) }

Sids == { MakeSid(id, Strip(tv)) : id \in SignalIds, tv \in RawSymbols }

----------------------------------------------------------------------------
(* Broker data *)

\* A trading symbol is modelled by its parts; its text starts with the name.
Tsym(name, expiry, strike, type) == <<name, expiry, strike, type>>
StartsWith(tsym, root) == tsym[1] = root

Instr(seg, name, expiry, strike, type, lot) ==
    [segment |-> seg, name |-> name, expiry |-> expiry, strike |-> strike,
     instrument_type |-> type, tradingsymbol |-> Tsym(name, expiry, strike, type),
     lot_size |-> lot]

\* The instruments the broker may list, in the broker's list order.
Universe ==
    << Instr("NFO-OPT", "FINNIFTY", TODAY, 21050, "CE", 40),
       Instr("NFO-OPT", "FINNIFTY", TODAY, 21100, "CE", 40),
       Instr("NFO-OPT", "FINNIFTY", TODAY, 21000, "CE", 40),
       Instr("NFO-OPT", "FINNIFTY", TODAY, 21050, "PE", 40),
       Instr("NFO-OPT", "FINNIFTY", TODAY - 1, 21050, "CE", 40),
       Instr("NFO-OPT", "FINNIFTY", TODAY + 7, 21050, "CE", 40),
       Instr("NFO-OPT", "MIDCPNIFTY", TODAY, 21050, "CE", 75),
       Instr("NFO-FUT", "FINNIFTY", TODAY, 21050, "FUT", 40) >>

RECURSIVE Pick(_, _, _)
\* the members of list whose index is in S, in list order
Pick(list, S, i) ==
    IF i > Len(list) THEN <<>>
    ELSE IF i \in S THEN <<list[i]>> \o Pick(list, S, i + 1)
    ELSE Pick(list, S, i + 1)

\* A few replies: no instrument, one contract, two contracts.
FewChains ==
    { Pick(Universe, S, 1) : S \in { {}, {1}, {2, 4} } }

\* The replies instruments("NFO") may give.
Chains ==
    { Pick(Universe, S, 1) :
        S \in { T \in SUBSET (1..Len(Universe)) : Cardinality(T) <= MaxChain } }

Pos(exch, product, tsym, qty) ==
    [exchange |-> exch, product |-> product, tradingsymbol |-> tsym,
     quantity |-> qty]

PositionUniverse ==
    { Pos("NFO", "MIS", Tsym("FINNIFTY", TODAY, 21050, "CE"), 40),
      Pos("NFO", "MIS", Tsym("FINNIFTY", TODAY, 21100, "PE"), -80),
      Pos("NFO", "MIS", Tsym("FINNIFTY", TODAY, 21000, "CE"), 0),
      Pos("NFO", "NRML", Tsym("FINNIFTY", TODAY, 21050, "CE"), 40),
      Pos("NSE", "MIS", Tsym("FINNIFTY", TODAY, 0, "EQ"), 10),
      Pos("NFO", "MIS", Tsym("MIDCPNIFTY", TODAY, 21050, "CE"), 75) }

\* A few "net" lists: no position, a long one, a short one.
FewPositionLists ==
    { <<>>,
      << Pos("NFO", "MIS", Tsym("FINNIFTY", TODAY, 21050, "CE"), 40) >>,
      << Pos("NFO", "MIS", Tsym("FINNIFTY", TODAY, 21100, "PE"), -80) >> }

\* The "net" lists positions() may give.
PositionLists ==
    UNION { [1..n -> PositionUniverse] : n \in 0..MaxPositions }

----------------------------------------------------------------------------
(* Helpers of main.py *)

Min(S) == CHOOSE x \in S : \A y \in S : x <= y
Abs(x) == IF x < 0 THEN -x ELSE x

\* round(n / d) as Python 3 rounds: to the nearest integer, a tie to the even one
RoundHalfEven(n, d) ==
    LET q == n \div d
        r == n % d
    IN  IF 2 * r < d THEN q
        ELSE IF 2 * r > d THEN q + 1
        ELSE IF q % 2 = 0 THEN q ELSE q + 1

\* a price cut down to the multiple below it
FloorToStep(px, step) == (px \div step) * step
\* Prices and steps are counted in one unit: a price of n/d units at step s
\* has the quotient of price n at step d * s.
round_to_step(px, step) == RoundHalfEven(px, step) * step

\* a reload already due when the TTL has just been reached
ReloadDueAtTTL(insts, last, t, force) ==
    force \/ insts = {} \/ (t - last) >= TTL
\* Whether _reload_instruments fetches.
ReloadDue(insts, last, t, force) ==
    force \/ insts = {} \/ (t - last) > TTL

\* a reload that drops the snapshot when the fetch raises
ReloadDropsStale(insts, last, t, fetch, force) ==
    IF ~ReloadDue(insts, last, t, force)
    THEN [_instruments |-> insts, _last_reload |-> last, raised |-> FALSE,
          called |-> FALSE]
    ELSE IF fetch = {}
    THEN [_instruments |-> {}, _last_reload |-> last, raised |-> TRUE,
          called |-> TRUE]
    ELSE [_instruments |-> fetch, _last_reload |-> t, raised |-> FALSE,
          called |-> TRUE]

\* _reload_instruments at instant t; fetch is the broker's reply when one is
\* asked for: {chain}, or {} when instruments("NFO") raises.  called:
\* whether instruments("NFO") was called.
_reload_instruments(insts, last, t, fetch, force) ==
    IF ~ReloadDue(insts, last, t, force)
    THEN [_instruments |-> insts, _last_reload |-> last, raised |-> FALSE,
          called |-> FALSE]
    ELSE IF fetch = {}
    THEN [_instruments |-> insts, _last_reload |-> last, raised |-> TRUE,
          called |-> TRUE]
    ELSE [_instruments |-> fetch, _last_reload |-> t, raised |-> FALSE,
          called |-> TRUE]

\* The replies the broker may give to the fetch of one _reload_instruments
\* call, out of the chains CS: none is asked for when no reload is due.
Fetches(CS, insts, last, t) ==
    IF ReloadDue(insts, last, t, FALSE)
    THEN {{}} \cup { {c} : c \in CS }
    ELSE {{}}

\* the earliest expiry, past or not
EarliestExpiry(chain, root, today) ==
    LET exps == { chain[i].expiry : i \in { j \in 1..Len(chain) :
                      /\ chain[j].segment = "NFO-OPT"
                      /\ chain[j].name = root } }
    IN  IF exps = {} THEN {} ELSE {Min(exps)}

\* nearest_expiry on snapshot chain: {} when it raises RuntimeError
nearest_expiry(chain, root, today) ==
    LET exps == { chain[i].expiry : i \in { j \in 1..Len(chain) :
                      /\ chain[j].segment = "NFO-OPT"
                      /\ chain[j].name = root } }
        live == { d \in exps : d >= today }
    IN  IF live = {} THEN {} ELSE {Min(live)}

ContractMatches(i, root, expiry, strike, right) ==
    /\ i.segment = "NFO-OPT"
    /\ i.name = root
    /\ i.expiry = expiry
    /\ i.strike = strike
    /\ i.instrument_type = right

\* find_contract on snapshot chain: {} is None
find_contract(chain, root, expiry, strike, right) ==
    LET hits == { j \in 1..Len(chain) :
                    ContractMatches(chain[j], root, expiry, strike, right) }
    IN  IF hits = {} THEN {} ELSE {chain[Min(hits)]}

PositionMatches(p, root) ==
    /\ p.exchange = "NFO"
    /\ p.product = "MIS"
    /\ StartsWith(p.tradingsymbol, root)
    /\ p.quantity # 0

\* the last matching position of the list
LastPosition(net, root) ==
    LET hits == { j \in 1..Len(net) : PositionMatches(net[j], root) }
    IN  IF hits = {} THEN {}
        ELSE {net[CHOOSE j \in hits : \A i \in hits : i <= j]}

\* open_position_for on the net list the broker returned: {} is None
open_position_for(net, root) ==
    LET hits == { j \in 1..Len(net) : PositionMatches(net[j], root) }
    IN  IF hits = {} THEN {} ELSE {net[Min(hits)]}

\* the place_order call place_market issues
place_market(tsym, qty, side) ==
    [variety |-> "regular", exchange |-> "NFO", tradingsymbol |-> tsym,
     transaction_type |-> side, quantity |-> qty, product |-> "MIS",
     order_type |-> "MARKET"]

\* a second place_order call after a refused one
OrderCallsWithRetry(accepted) == IF accepted THEN 1 ELSE 2
\* the kite.place_order calls one place_market call makes, whether the
\* broker accepts the order or the call raises
OrderCalls(accepted) == 1

\* an exit that always sells
ExitAlwaysSell(qty) == "SELL"
ExitSide(qty) == IF qty > 0 THEN "SELL" ELSE "BUY"

\* a call bought for either side
RightAlwaysCall(side) == "CE"
RightOf(side) == IF side = "LONG" THEN "CE" ELSE "PE"

\* a check that lets a recorded signal through until its order was placed
DuplicateIfPlaced(s, sid) == sid \in s /\ placed[sid] > 0
\* a membership check that never finds the key
NeverDuplicate(s, sid) == FALSE
IsDuplicate(s, sid) == sid \in s

\* an insertion that is lost
RecordNothing(s, sid) == s
Record(s, sid) == s \cup {sid}

----------------------------------------------------------------------------
(* Responses *)

NoResp ==
    [status |-> "", code |-> 0, reason |-> "", action |-> "", symbol |-> {},
     qty |-> 0, right |-> "", strike |-> 0, expiry |-> {}, order_id |-> ""]

\* raise HTTPException(code, ...), or an exception the handler does not catch
\* (the framework answers 500)
Error(code, reason) ==
    [NoResp EXCEPT !.status = "error", !.code = code, !.reason = reason]
Ignored == [NoResp EXCEPT !.status = "ignored", !.code = 200, !.reason = "duplicate"]
NoOp(reason) == [NoResp EXCEPT !.status = "noop", !.code = 200, !.reason = reason]

\* a miss of all candidates answered as a soft no-op
NoContractSoft == NoOp("No contract")
\* line 167, and the RuntimeError of line 61
NoContract == Error(500, "No contract")
NoExpiry == Error(500, "No future expiries")
ExitOk(pos, qty) ==
    [NoResp EXCEPT !.status = "ok", !.code = 200, !.action = "exit",
                   !.order_id = "order_id", !.symbol = {pos.tradingsymbol},
                   !.qty = qty]
EntryOk(inst, qty, right, strike, expiry) ==
    [NoResp EXCEPT !.status = "ok", !.code = 200, !.action = "entry",
                   !.order_id = "order_id", !.symbol = {inst.tradingsymbol},
                   !.qty = qty, !.right = right, !.strike = strike,
                   !.expiry = {expiry}]

----------------------------------------------------------------------------
(* The handler on the event loop *)

\* pc: "idle" (no request handled yet), "expiry" (before line 159),
\* "find" (before the find_contract call for OFFSETS[k]), "done" (returned);
\* "round" and "rounded" (before and after the round_to_step call of
\* line 156, when that call is looked at on its own).
\* price, step: the locals of lines 154-155.
\* "reloaded": after a _reload_instruments call looked at on its own, of
\* which force is the argument, called whether it called instruments("NFO")
\* and fetch the reply it got ({} when none or when the call raised).
\* The fields from dup on record what the handler read and did:
\*   dup      whether the identity was in _seen when the handler looked
\*   gate     the instant the handler started (the clock market_open_ist read)
\*   today    the date nearest_expiry compared with
\*   lookups  the find_contract calls made: the strike asked for, the result,
\*            whether the call fetched the instruments anew
\*   net      the positions() reply; call: the place_order call issued
\*   failed   the cache as it was when an instruments("NFO") fetch raised
Idle ==
    [pc |-> "idle", payload |-> {}, sid |-> {}, root |-> "", side |-> "",
     price |-> 0, step |-> 0,
     right |-> "", strike |-> 0, expiry |-> {}, k |-> 1,
     dup |-> FALSE, gate |-> 0, today |-> 0, lookups |-> <<>>,
     net |-> {}, call |-> {}, failed |-> {},
     force |-> FALSE, called |-> FALSE, fetch |-> {}, resp |-> NoResp]

Return(c, resp) == [c EXCEPT !.pc = "done", !.resp = resp]

The(S) == CHOOSE x \in S : TRUE

\* The module's globals as lines 32-34 leave them, the clock at an instant of CV.
InitAt(CV) ==
    /\ _seen = {}
    /\ _instruments = {}
    /\ _last_reload = 0
    /\ now \in CV
    /\ inflight = EmptyBag
    /\ cur = Idle
    /\ admitted = [s \in Sids |-> 0]
    /\ placed = [s \in Sids |-> 0]

\* webhook, lines 128-157, for payload p: the handler runs up to the first
\* use of the instrument cache; the exit path runs to its return.  nets are
\* the replies positions() may give.
Handle(p, nets) ==
    /\ cur.pc \in {"idle", "done"}
    /\ UNCHANGED <<_instruments, _last_reload, now>>
    /\ LET tv == Strip(p.index_tv)
           sid == MakeSid(p.signal_id, tv)
           side == Upper(p.side)
           c == [Idle EXCEPT !.payload = {p}, !.sid = {sid}, !.gate = now,
                             !.dup = sid \in _seen]
       IN  IF IsDuplicate(_seen, sid)
           THEN /\ cur' = Return(c, Ignored)
                /\ UNCHANGED <<_seen, admitted, placed>>
           ELSE
           /\ _seen' = Record(_seen, sid)
           /\ admitted' = [admitted EXCEPT ![sid] = @ + 1]
           /\ IF tv \notin ALLOWED_TV
              THEN /\ cur' = Return(c, Error(400, "unsupported symbol"))
                   /\ UNCHANGED placed
              ELSE IF side \notin SIDES
              THEN /\ cur' = Return([c EXCEPT !.root = TV_MAP[tv]],
                                    Error(400, "invalid side"))
                   /\ UNCHANGED placed
              ELSE IF side # "EXIT" /\ ~market_open_ist(now)
              THEN /\ cur' = Return([c EXCEPT !.root = TV_MAP[tv], !.side = side],
                                    NoOp("market_closed"))
                   /\ UNCHANGED placed
              ELSE IF side = "EXIT"
              THEN \E reply \in {{}} \cup { {n} : n \in nets } :
                     LET root == TV_MAP[tv]
                         e == [c EXCEPT !.root = root, !.side = side, !.net = reply]
                     IN  IF reply = {}
                         THEN /\ cur' = Return(e, Error(500, "positions failed"))
                              /\ UNCHANGED placed
                         ELSE LET pos == open_position_for(The(reply), root)
                              IN  IF pos = {}
                                  THEN /\ cur' = Return(e, NoOp("no open position"))
                                       /\ UNCHANGED placed
                                  ELSE LET qty == Abs(The(pos).quantity)
                                           tx == ExitSide(The(pos).quantity)
                                           o == place_market(The(pos).tradingsymbol, qty, tx)
                                       IN  \E accepted \in BOOLEAN :
                                             /\ placed' = [placed EXCEPT ![sid] =
                                                             @ + OrderCalls(accepted)]
                                             /\ cur' = Return([e EXCEPT !.call = {o}],
                                                  IF accepted THEN ExitOk(The(pos), qty)
                                                  ELSE Error(500, "order failed"))
              ELSE LET root == TV_MAP[tv]
                   IN  /\ cur' = [c EXCEPT !.pc = "expiry", !.root = root,
                                    !.side = side,
                                    !.price = p.price, !.step = STRIKE_STEP[root],
                                    !.strike = round_to_step(p.price, STRIKE_STEP[root]),
                                    !.right = RightOf(side)]
                       /\ UNCHANGED placed

\* webhook, lines 119-126: the body of a request is not JSON.
Malformed ==
    /\ cur.pc \in {"idle", "done"}
    /\ cur' = Return(Idle, Error(400, "Invalid JSON"))
    /\ UNCHANGED <<_seen, _instruments, _last_reload, now, inflight, admitted, placed>>

\* A request arrives, its body is read at once and the handler starts.
Serve(p, nets) ==
    /\ inflight = EmptyBag
    /\ UNCHANGED inflight
    /\ Handle(p, nets)

\* A request arrives and suspends at `await req.json()`.
Receive(p) ==
    /\ BagCardinality(inflight) < MaxInflight
    /\ inflight' = inflight (+) SetToBag({p})
    /\ UNCHANGED <<_seen, _instruments, _last_reload, now, cur, admitted, placed>>

\* The event loop resumes a suspended request: its handler starts.
webhook(p, nets) ==
    /\ BagIn(p, inflight)
    /\ inflight' = inflight (-) SetToBag({p})
    /\ Handle(p, nets)

\* The wall clock advances to a later instant of CV.
Tick(CV) ==
    /\ \E t \in CV : t > now /\ now' = t
    /\ UNCHANGED <<_seen, _instruments, _last_reload, inflight, cur, admitted, placed>>

\* What the handler does when _reload_instruments raises.
FetchFailed(c) ==
    Return([c EXCEPT !.failed = {[_instruments |-> _instruments,
                                  _last_reload |-> _last_reload]}],
           Error(500, "instruments failed"))

\* webhook, line 159: expiry = nearest_expiry(root)
ExpiryStep(CS) ==
    /\ cur.pc = "expiry"
    /\ UNCHANGED <<_seen, now, inflight, admitted, placed>>
    /\ \E fetch \in Fetches(CS, _instruments, _last_reload, now) :
         LET r == _reload_instruments(_instruments, _last_reload, now, fetch, FALSE)
         IN  /\ _instruments' = r._instruments
             /\ _last_reload' = r._last_reload
             /\ IF r.raised
                THEN cur' = FetchFailed(cur)
                ELSE LET today == DateOf(now)
                         e == nearest_expiry(The(r._instruments), cur.root, today)
                         c == [cur EXCEPT !.today = today]
                     IN  IF e = {}
                         THEN cur' = Return(c, NoExpiry)
                         ELSE cur' = [c EXCEPT !.pc = "find", !.expiry = e, !.k = 1]

\* webhook, lines 160-181: one find_contract call, for the strike at
\* OFFSETS[k]; on a hit the order is placed and the handler returns.
FindStep(CS) ==
    /\ cur.pc = "find"
    /\ UNCHANGED <<_seen, now, inflight, admitted>>
    /\ \E fetch \in Fetches(CS, _instruments, _last_reload, now) :
         LET r == _reload_instruments(_instruments, _last_reload, now, fetch, FALSE)
         IN  /\ _instruments' = r._instruments
             /\ _last_reload' = r._last_reload
             /\ IF r.raised
                THEN /\ cur' = FetchFailed(cur)
                     /\ UNCHANGED placed
                ELSE LET step == STRIKE_STEP[cur.root]
                         strike == cur.strike + OFFSETS[cur.k] * step
                         inst == find_contract(The(r._instruments), cur.root,
                                              The(cur.expiry), strike, cur.right)
                         c == [cur EXCEPT !.lookups = Append(@,
                                 [strike |-> strike, hit |-> inst,
                                  fetched |-> fetch # {}])]
                     IN  IF inst # {}
                         THEN LET qty == The(inst).lot_size * 1
                                  o == place_market(The(inst).tradingsymbol, qty, "BUY")
                              IN  \E accepted \in BOOLEAN :
                                    /\ placed' = [placed EXCEPT ![The(cur.sid)] =
                                                    @ + OrderCalls(accepted)]
                                    /\ cur' = Return([c EXCEPT !.call = {o}],
                                         IF accepted
                                         THEN EntryOk(The(inst), qty, cur.right,
                                                      cur.strike, The(cur.expiry))
                                         ELSE Error(500, "order failed"))
                         ELSE IF cur.k < Len(OFFSETS)
                         THEN /\ cur' = [c EXCEPT !.k = @ + 1]
                              /\ UNCHANGED placed
                         ELSE /\ cur' = Return(c, NoContract)
                              /\ UNCHANGED placed

\* _reload_instruments(force), lines 47-52, called on its own at the instant
\* now; the broker answers a chain of CS or raises.
Reload(CS, force) ==
    /\ cur.pc \in {"idle", "reloaded"}
    /\ UNCHANGED <<_seen, now, inflight, admitted, placed>>
    /\ \E fetch \in {{}} \cup { {c} : c \in CS } :
         LET r == _reload_instruments(_instruments, _last_reload, now, fetch, force)
         IN  /\ _instruments' = r._instruments
             /\ _last_reload' = r._last_reload
             /\ cur' = [Idle EXCEPT
                          !.pc = "reloaded", !.gate = now, !.force = force,
                          !.called = r.called,
                          !.fetch = IF r.called THEN fetch ELSE {},
                          !.failed = IF r.raised
                                     THEN {[_instruments |-> _instruments,
                                            _last_reload |-> _last_reload]}
                                     ELSE {}]

\* The prices and the steps round_to_step is given when looked at on its own.
RoundPrices == (-MaxPrice)..MaxPrice
RoundSteps == (1..MaxStep) \cup {25, 50}

\* The handler before line 156, with a price and a step.
InitRoundAt(PX, ST) ==
    /\ _seen = {}
    /\ _instruments = {}
    /\ _last_reload = 0
    /\ now = At(9, 15, 0)
    /\ inflight = EmptyBag
    /\ \E px \in PX, st \in ST :
         cur = [Idle EXCEPT !.pc = "round", !.price = px, !.step = st]
    /\ admitted = [s \in Sids |-> 0]
    /\ placed = [s \in Sids |-> 0]

\* webhook, line 156: strike = round_to_step(price, step)
RoundStep ==
    /\ cur.pc = "round"
    /\ cur' = [cur EXCEPT !.pc = "rounded",
                          !.strike = round_to_step(cur.price, cur.step)]
    /\ UNCHANGED <<_seen, _instruments, _last_reload, now, inflight, admitted, placed>>

----------------------------------------------------------------------------
(* Specifications *)

\* Requests one at a time, of every symbol and side, around the session's
\* edges.
Init == InitAt(SessionEdges)

Next ==
    \/ \E p \in GatePayloads : Serve(p, FewPositionLists)
    \/ Malformed
    \/ ExpiryStep(FewChains)
    \/ FindStep(FewChains)
    \/ Tick(SessionEdges)

Spec == Init /\ [][Next]_vars

\* Entry requests one at a time, against every option chain, around the
\* cache's time to live.
InitResolve == InitAt(RefreshEdges)

NextResolve ==
    \/ \E p \in EntryPayloads : Serve(p, FewPositionLists)
    \/ ExpiryStep(Chains)
    \/ FindStep(Chains)
    \/ Tick(RefreshEdges)

SpecResolve == InitResolve /\ [][NextResolve]_vars

\* Exit requests one at a time, against every position list, around the
\* session's close.
InitExit == InitAt(CloseEdges)

NextExit ==
    \/ \E p \in ExitPayloads : Serve(p, PositionLists)
    \/ Tick(CloseEdges)

SpecExit == InitExit /\ [][NextExit]_vars

\* Requests in flight together.
InitRace == InitAt(SessionEdges)

NextRace ==
    \/ \E p \in RacePayloads : Receive(p)
    \/ \E p \in RacePayloads : webhook(p, FewPositionLists)
    \/ Malformed
    \/ ExpiryStep(FewChains)
    \/ FindStep(FewChains)
    \/ Tick(SessionEdges)

SpecRace == InitRace /\ [][NextRace]_vars

\* round_to_step on its own, for every price and step of a range.
InitRound == InitRoundAt(RoundPrices, RoundSteps)

NextRound == RoundStep

SpecRound == InitRound /\ [][NextRound]_vars

\* _reload_instruments on its own, forced or not, around the cache's time
\* to live.
InitReload == InitAt(RefreshEdges)

NextReload ==
    \/ \E force \in BOOLEAN : Reload(Chains, force)
    \/ Tick(RefreshEdges)

SpecReload == InitReload /\ [][NextReload]_vars

TypeOK ==
    /\ _seen \subseteq Sids
    /\ _instruments \in {{}} \cup { {c} : c \in Chains }
    /\ now \in ClockValues
    /\ cur.pc \in {"idle", "expiry", "find", "done", "round", "rounded",
                  "reloaded"}
    /\ \A s \in Sids : admitted[s] \in 0..1 /\ placed[s] \in 0..1

----------------------------------------------------------------------------
(* Properties *)

Entry(c) == c.payload # {} /\ Upper(The(c.payload).side) \in {"LONG", "SHORT"}
Exit(c) == c.payload # {} /\ Upper(The(c.payload).side) = "EXIT"
Supported(c) == c.payload # {} /\ Strip(The(c.payload).index_tv) \in ALLOWED_TV
OutsideSession(t) == TimeOfDay(t) < OPEN_TIME \/ TimeOfDay(t) > CLOSE_TIME

\* C1: among the signals of one identity key at most one passes the
\* duplicate check and at most one reaches order placement; the identity of
\* an admitted signal stays in _seen (no key ever leaves it), and a signal
\* whose identity is in _seen is answered status=ignored, reason=duplicate
\* and places no order.
C1_OneOrderPerIdentity ==
    /\ [](\A s \in Sids :
            /\ admitted[s] <= 1
            /\ placed[s] <= admitted[s]
            /\ admitted[s] = 1 => s \in _seen)
    /\ [](cur.dup => /\ cur.pc = "done"
                     /\ cur.resp.status = "ignored"
                     /\ cur.resp.reason = "duplicate"
                     /\ cur.call = {})
    /\ [][_seen \subseteq _seen']_vars

\* A redelivery of a signal whose order was placed has been ignored.
C1_Witness ==
    /\ cur.dup
    /\ cur.pc = "done"
    /\ placed[The(cur.sid)] = 1

\* C2: with requests of one identity key in flight together, under every
\* interleaving of their handlers at most one passes the duplicate check and
\* at most one order is placed for the key.
C2_AtomicCheckAndSet ==
    \A s \in Sids : admitted[s] <= 1 /\ placed[s] <= 1

SidOf(p) == MakeSid(p.signal_id, Strip(p.index_tv))

\* A handler admitted for a key is between its cache lookups while another
\* request of the same key is suspended, waiting for the event loop.
C2_Witness ==
    /\ cur.pc = "find"
    /\ \E p \in RacePayloads : BagIn(p, inflight) /\ SidOf(p) = The(cur.sid)

\* C3, as claimed: a signal of an unsupported symbol is answered 400, makes
\* no broker call and leaves _seen without its identity (so that its
\* redelivery is answered 400 again).
C3_UnsupportedNotRecorded ==
    (cur.pc = "done" /\ cur.payload # {} /\ ~Supported(cur)) =>
        /\ cur.resp.status = "error"
        /\ cur.resp.code = 400
        /\ cur.call = {}
        /\ The(cur.sid) \notin _seen

\* C4: an entry signal handled at an instant outside [09:15, 15:29] places
\* no order; an admitted EXIT signal of a supported symbol whose positions()
\* reply holds a matching open position places an order, whatever the time.
C4_SessionGate ==
    /\ (Entry(cur) /\ OutsideSession(cur.gate)) =>
          /\ cur.pc = "done"
          /\ cur.call = {}
          /\ cur.resp.status \in {"noop", "ignored", "error"}
    /\ (Exit(cur) /\ Supported(cur) /\ ~cur.dup /\ cur.net # {}
          /\ \E j \in 1..Len(The(cur.net)) :
                LET q == The(cur.net)[j]
                IN  /\ q.exchange = "NFO" /\ q.product = "MIS"
                    /\ q.tradingsymbol[1] = TV_MAP[Strip(The(cur.payload).index_tv)]
                    /\ q.quantity # 0) =>
          cur.call # {}

\* An entry signal of a supported symbol, not a duplicate, handled one
\* second after the close was refused.
C4_Witness ==
    /\ Entry(cur) /\ Supported(cur) /\ ~cur.dup
    /\ cur.gate = At(15, 29, 1)
    /\ cur.resp.status = "noop"
    /\ cur.resp.reason = "market_closed"

\* The handler reached the entry path (line 154 on).
Resolving(c) == c.right # ""
Last(q) == q[Len(q)]
NoneFetched(q) == \A i \in 1..Len(q) : ~q[i].fetched

\* The option contracts of the handler's root, expiry and right at a strike,
\* in a chain.
Listed(chain, c, strike) ==
    { j \in 1..Len(chain) :
        /\ chain[j].segment = "NFO-OPT"
        /\ chain[j].name = TV_MAP[Strip(The(c.payload).index_tv)]
        /\ chain[j].expiry = The(c.expiry)
        /\ chain[j].strike = strike
        /\ chain[j].instrument_type =
             (IF Upper(The(c.payload).side) = "LONG" THEN "CE" ELSE "PE") }

Candidate(c, i) == c.strike + <<0, 1, -1, 2, -2>>[i] * STRIKE_STEP[c.root]

\* C5: the find_contract calls of an entry ask for the strikes target,
\* target + step, target - step, target + 2 steps, target - 2 steps in that
\* order, each after the misses of those before it; a call hits exactly when
\* the chain it reads lists the contract, and the order is placed for the
\* first hit: no candidate tried before it is listed in the chain, unless a
\* later lookup fetched the chain anew.  A price of 21034 at step 50 gives
\* the target 21050.
C5_FallbackOrder ==
    Resolving(cur) =>
        /\ (The(cur.payload).price = 21034 /\ cur.root = "FINNIFTY") =>
               cur.strike = 21050
        /\ Len(cur.lookups) <= 5
        /\ \A i \in 1..Len(cur.lookups) :
              /\ cur.lookups[i].strike = Candidate(cur, i)
              /\ i < Len(cur.lookups) => cur.lookups[i].hit = {}
        /\ cur.lookups # <<>> =>
              LET l == Last(cur.lookups)
                  chain == The(_instruments)
              IN  /\ l.hit = {} <=> Listed(chain, cur, l.strike) = {}
                  /\ l.hit # {} =>
                        /\ \E j \in Listed(chain, cur, l.strike) : chain[j] = The(l.hit)
                        /\ cur.call # {}
                        /\ The(cur.call).tradingsymbol = The(l.hit).tradingsymbol
        /\ cur.call # {} =>
              /\ cur.lookups # <<>>
              /\ Last(cur.lookups).hit # {}
              /\ \A i \in 1..(Len(cur.lookups) - 1) :
                    (\A n \in (i + 1)..Len(cur.lookups) : ~cur.lookups[n].fetched)
                       => Listed(The(_instruments), cur, Candidate(cur, i)) = {}

\* Target 21050 CE is not listed, 21100 CE and 21000 CE are: the order is
\* placed for 21100 CE.
C5_Witness ==
    /\ cur.call # {}
    /\ cur.strike = 21050
    /\ _instruments = { Pick(Universe, {2, 3}, 1) }
    /\ NoneFetched(cur.lookups)
    /\ The(cur.call).tradingsymbol = Tsym("FINNIFTY", TODAY, 21100, "CE")

\* C6: when the lookups of all five candidates miss, the entry ends with a
\* 500 error and no order; no sixth lookup is made.
C6_HardFailure ==
    /\ Len(cur.lookups) <= 5
    /\ (Len(cur.lookups) = 5 /\ \A i \in 1..5 : cur.lookups[i].hit = {}) =>
          /\ cur.pc = "done"
          /\ cur.resp.status = "error"
          /\ cur.resp.code = 500
          /\ cur.call = {}
          /\ placed[The(cur.sid)] = 0
    /\ cur.resp.reason = "No contract" =>
          /\ Len(cur.lookups) = 5
          /\ \A i \in 1..5 : /\ cur.lookups[i].hit = {}
                             /\ cur.lookups[i].strike = Candidate(cur, i)

\* Target 20950 CE: the chain lists 21100 CE only, and all five lookups
\* missed.
C6_Witness ==
    /\ cur.resp.reason = "No contract"
    /\ cur.strike = 20950
    /\ _instruments = { Pick(Universe, {2}, 1) }

\* C7: an admitted EXIT signal whose positions() reply holds a matching open
\* position places exactly one market order, for the trading symbol of such
\* a position of quantity q, of quantity |q|, SELL if q > 0 and BUY if
\* q < 0; with no matching position it answers status=noop, reason "no open
\* position" and places no order.
C7_ExitOrder ==
    (Exit(cur) /\ Supported(cur) /\ ~cur.dup /\ cur.net # {}) =>
        LET net == The(cur.net)
            root == TV_MAP[Strip(The(cur.payload).index_tv)]
            match == { j \in 1..Len(net) :
                         /\ net[j].exchange = "NFO"
                         /\ net[j].product = "MIS"
                         /\ net[j].tradingsymbol[1] = root
                         /\ net[j].quantity # 0 }
        IN  IF match = {}
            THEN /\ cur.resp.status = "noop"
                 /\ cur.resp.reason = "no open position"
                 /\ cur.call = {}
                 /\ placed[The(cur.sid)] = 0
            ELSE /\ placed[The(cur.sid)] = 1
                 /\ cur.call # {}
                 /\ \E j \in match :
                      LET q == net[j].quantity
                          o == The(cur.call)
                      IN  /\ o.tradingsymbol = net[j].tradingsymbol
                          /\ o.quantity = (IF q < 0 THEN -q ELSE q)
                          /\ o.transaction_type = (IF q > 0 THEN "SELL" ELSE "BUY")
                          /\ o.order_type = "MARKET"

\* The short position of -80 was bought back: BUY 80.
C7_Witness ==
    /\ Exit(cur)
    /\ cur.call # {}
    /\ The(cur.call).transaction_type = "BUY"
    /\ The(cur.call).quantity = 80

\* C8: the order of an entry signal is a BUY market order of the lot size
\* of the contract found, a contract the chain lists, whose right is CE for
\* LONG and PE for SHORT.
C8_EntryBuysOneLot ==
    (Entry(cur) /\ cur.call # {}) =>
        LET o == The(cur.call)
            h == Last(cur.lookups).hit
        IN  /\ o.transaction_type = "BUY"
            /\ o.order_type = "MARKET"
            /\ h # {}
            /\ \E j \in 1..Len(The(_instruments)) : The(_instruments)[j] = The(h)
            /\ o.tradingsymbol = The(h).tradingsymbol
            /\ o.quantity = The(h).lot_size
            /\ The(h).segment = "NFO-OPT"
            /\ The(h).instrument_type =
                 (IF Upper(The(cur.payload).side) = "LONG" THEN "CE" ELSE "PE")

\* A SHORT signal bought a put.
C8_Witness ==
    /\ Entry(cur)
    /\ Upper(The(cur.payload).side) = "SHORT"
    /\ cur.call # {}
    /\ The(cur.call).tradingsymbol[4] = "PE"

\* The expiries on or after the handler's date among the option entries of
\* its root in a chain.
LiveExpiries(chain, c) ==
    { chain[j].expiry : j \in { i \in 1..Len(chain) :
        /\ chain[i].segment = "NFO-OPT"
        /\ chain[i].name = c.root
        /\ chain[i].expiry >= c.today } }

\* C9: nearest_expiry returns the smallest expiry on or after today among
\* the option entries of the root in the snapshot, and raises when there is
\* none: then the request ends with an error and no order.  No expiry it
\* returns is in the past, and no order is placed for a past expiry.
C9_NearestExpiry ==
    /\ (cur.today # 0 /\ cur.lookups = <<>> /\ cur.failed = {}) =>
          LET live == LiveExpiries(The(_instruments), cur)
          IN  IF live = {}
              THEN /\ cur.pc = "done"
                   /\ cur.resp.status = "error"
                   /\ cur.resp.reason = "No future expiries"
                   /\ cur.expiry = {}
              ELSE /\ cur.pc = "find"
                   /\ cur.expiry # {}
                   /\ The(cur.expiry) \in live
                   /\ \A d \in live : The(cur.expiry) <= d
    /\ cur.expiry # {} => The(cur.expiry) >= cur.today
    /\ cur.resp.reason = "No future expiries" => cur.call = {}
    /\ (Entry(cur) /\ cur.call # {}) =>
          /\ cur.expiry # {}
          /\ The(cur.call).tradingsymbol[2] >= cur.today

\* The chain lists an expired and a later expiry: the later one is returned.
C9_Witness ==
    /\ cur.pc = "find"
    /\ cur.lookups = <<>>
    /\ _instruments = { Pick(Universe, {5, 6}, 1) }
    /\ cur.expiry = {TODAY + 7}

\* C10, as claimed: when a due fetch fails the snapshot is retained, and if
\* a snapshot exists the request goes on with it instead of failing.
C10_StaleServes ==
    cur.failed # {} =>
        /\ _instruments = The(cur.failed)._instruments
        /\ (The(cur.failed)._instruments # {} => cur.resp.status # "error")

\* C10, amended: when a due fetch fails the snapshot and the time of the
\* last reload are left as they were, and the error reaches the handler's
\* caller whether or not a snapshot exists: the request ends with a 500
\* error and places no order.
C10_FetchFailureSurfaces ==
    cur.failed # {} =>
        /\ _instruments = The(cur.failed)._instruments
        /\ _last_reload = The(cur.failed)._last_reload
        /\ cur.pc = "done"
        /\ cur.resp.status = "error"
        /\ cur.resp.code = 500
        /\ cur.call = {}

\* A fetch failed while a snapshot, older than the TTL, was held.
C10_Witness ==
    /\ cur.failed # {}
    /\ The(cur.failed)._instruments # {}
    /\ now - _last_reload > TTL

ValidSide(c) == c.payload # {} /\ Upper(The(c.payload).side) \in {"LONG", "SHORT", "EXIT"}

\* C11, as claimed: a signal of a supported symbol whose side is none of
\* LONG, SHORT, EXIT is answered 400, makes no broker call and leaves _seen
\* without its identity (so that a later signal of the same identity and a
\* valid side is admitted).
C11_InvalidSideNotRecorded ==
    (cur.pc = "done" /\ Supported(cur) /\ ~ValidSide(cur) /\ ~cur.dup) =>
        /\ cur.resp.status = "error"
        /\ cur.resp.code = 400
        /\ cur.call = {}
        /\ cur.net = {}
        /\ The(cur.sid) \notin _seen

\* C12: a place_order call that fails ends the request with a 500 error,
\* and the call is not repeated: the request that issued it has made exactly
\* one place_order call, and no identity has more than one place_order call,
\* accepted or refused.
C12_FailedOrderNotRetried ==
    /\ \A s \in Sids : placed[s] <= 1
    /\ cur.call # {} =>
          /\ cur.pc = "done"
          /\ placed[The(cur.sid)] = 1
          /\ cur.resp.status \in {"ok", "error"}
    /\ cur.resp.reason = "order failed" =>
          /\ cur.pc = "done"
          /\ cur.call # {}
          /\ cur.resp.status = "error"
          /\ cur.resp.code = 500
          /\ placed[The(cur.sid)] = 1
    /\ (cur.pc = "done" /\ cur.call = {} /\ ~cur.dup /\ cur.sid # {}) =>
          placed[The(cur.sid)] = 0

\* The broker refused the order of an entry: one call was made.
C12_Witness ==
    /\ Entry(cur)
    /\ cur.resp.reason = "order failed"
    /\ cur.lookups # <<>>
    /\ placed[The(cur.sid)] = 1

\* The signal identifier and the symbol, blanks dropped, of the handler's
\* payload.
Key(c) == <<The(c.payload).signal_id, Strip(The(c.payload).index_tv)>>

\* C13: the identity keys are the pairs of signal identifier and symbol: a
\* handler adds to _seen the pair of its own payload and nothing else, and a
\* signal is answered duplicate only when the pair of its own identifier and
\* symbol was in _seen when it arrived; a signal of the same identifier and
\* another symbol, also one of the same option root, does not make it one.
C13_KeyIsIdAndSymbol ==
    /\ [](cur.payload # {} => Key(cur) \in _seen)
    /\ [][_seen' \ _seen \subseteq
             (IF cur'.payload = {} THEN {} ELSE {Key(cur')})]_vars
    /\ [][(cur.pc \in {"idle", "done"} /\ cur' # cur /\ cur'.payload # {}) =>
            (cur'.dup <=> Key(cur') \in _seen)]_vars

\* Signal 1 of NSE:NIFTY_MID_SELECT was admitted after signal 1 of
\* NSE:MIDCPNIFTY, of the same option root, had been recorded.
C13_Witness ==
    /\ cur.payload # {}
    /\ Key(cur) = <<1, "NSE:NIFTY_MID_SELECT">>
    /\ ValidSide(cur)
    /\ ~cur.dup
    /\ <<1, "NSE:MIDCPNIFTY">> \in _seen
    /\ admitted[<<1, "NSE:MIDCPNIFTY">>] = 1

\* The multiples of a step around the prices of the range.
Multiples(step) ==
    { k * step : k \in (-(MaxPrice \div step) - 1)..((MaxPrice \div step) + 1) }

\* C14: for every price and every positive step of the range,
\* round_to_step(price, step) is a multiple of step; no multiple of step is
\* nearer to price; when price is halfway between two multiples the result
\* is the even multiple of step (round half to even); and round_to_step is
\* monotonic in price.
C14_RoundToStep ==
    cur.pc = "rounded" =>
        LET px == cur.price
            st == cur.step
            r == cur.strike
        IN  /\ r % st = 0
            /\ \A m \in Multiples(st) :
                  (IF px < r THEN r - px ELSE px - r) <=
                  (IF px < m THEN m - px ELSE px - m)
            /\ (2 * (IF px < r THEN r - px ELSE px - r) = st) =>
                  (r \div st) % 2 = 0
            /\ \A px2 \in (-MaxPrice)..MaxPrice :
                  /\ px2 <= px => round_to_step(px2, st) <= r
                  /\ px2 >= px => round_to_step(px2, st) >= r

\* Ties at step 50: the price 25 gave 0, and the price 75 gave 100.
C14_Witness ==
    /\ cur.pc = "rounded"
    /\ cur.step = 50
    /\ \/ cur.price = 25 /\ cur.strike = 0
       \/ cur.price = 75 /\ cur.strike = 100

\* C15, as claimed: the response of a successful entry reports the trading
\* symbol, the right, the strike and the expiry of the contract the order
\* was placed for, also when that contract is a fallback one.
C15_ResponseDescribesOrder ==
    (cur.resp.status = "ok" /\ cur.resp.action = "entry") =>
        LET o == The(cur.call)
            h == The(Last(cur.lookups).hit)
        IN  /\ cur.resp.symbol = {o.tradingsymbol}
            /\ o.tradingsymbol = h.tradingsymbol
            /\ cur.resp.qty = o.quantity
            /\ cur.resp.right = h.instrument_type
            /\ cur.resp.expiry = {h.expiry}
            /\ cur.resp.strike = h.strike

\* C16: a signal of a supported symbol and a valid side that passed the
\* duplicate check has its identity in _seen from then on, whatever the
\* request comes to (no-op, error or order); no key leaves _seen; a signal
\* that finds its identity there places no order; and place_order is called
\* for a recorded identity only by the handler that recorded it, while it
\* runs: once that handler has returned without an order none is placed for
\* the identity later.
C16_RecordedWhateverTheOutcome ==
    /\ []((Supported(cur) /\ ValidSide(cur)) => The(cur.sid) \in _seen)
    /\ [](cur.dup => cur.pc = "done" /\ cur.call = {})
    /\ [][_seen \subseteq _seen']_vars
    /\ [][\A s \in _seen :
            (cur.pc \in {"idle", "done"} \/ cur.sid # {s}) =>
                placed'[s] = placed[s]]_vars

\* An entry signal refused outside the session was delivered again within
\* the session and ignored: no order for it.
C16_Witness ==
    /\ Entry(cur) /\ Supported(cur)
    /\ cur.dup
    /\ cur.resp.status = "ignored"
    /\ market_open_ist(cur.gate)
    /\ placed[The(cur.sid)] = 0

\* C17, as claimed: every find_contract call of an entry request reads the
\* snapshot its nearest_expiry call read (none fetches the instruments
\* anew), so that the ordered contract is of the nearest expiry of the
\* snapshot that lists it.
C17_OneSnapshotPerRequest ==
    /\ \A i \in 1..Len(cur.lookups) : ~cur.lookups[i].fetched
    /\ (Entry(cur) /\ cur.call # {}) =>
          cur.expiry = nearest_expiry(The(_instruments), cur.root, cur.today)

\* C18: a _reload_instruments call calls instruments("NFO") exactly when it
\* is forced, or no snapshot is held, or more than 300 seconds have passed
\* since _last_reload, which only a reload that got a reply sets; a call that
\* is not due leaves the cache as it is; a reply replaces the snapshot whole;
\* and the cache is empty with no reload done, or the reply of the call made
\* at _last_reload: one of the broker's chains, never two joined.
C18_ReloadWhenDue ==
    /\ [][(now' = now /\ cur'.pc = "reloaded") =>
            LET due == \/ cur'.force
                       \/ _instruments = {}
                       \/ now - _last_reload > 300
            IN  /\ cur'.called <=> due
                /\ ~due => UNCHANGED <<_instruments, _last_reload>>
                /\ (due /\ cur'.fetch # {}) =>
                      /\ _instruments' = cur'.fetch
                      /\ _last_reload' = now
                /\ (due /\ cur'.fetch = {}) =>
                      UNCHANGED <<_instruments, _last_reload>>]_vars
    /\ [](_instruments = {} <=> _last_reload = 0)
    /\ [](_instruments \in {{}} \cup { {c} : c \in Chains })
    /\ []((cur.pc = "reloaded" /\ cur.fetch # {}) =>
            /\ _instruments = cur.fetch
            /\ _last_reload = cur.gate)

\* A call that was not forced, 300 seconds after the last reload, made no
\* broker call and left the snapshot.
C18_Witness ==
    /\ cur.pc = "reloaded"
    /\ ~cur.force /\ ~cur.called
    /\ cur.gate = now
    /\ now - _last_reload = 300
    /\ _instruments # {}

\* The places of a net list whose position is on the options exchange, of
\* the intraday product, of a trading symbol that starts with the root of the
\* handler's symbol, and of a quantity other than zero.
Open(net, c) ==
    { j \in 1..Len(net) :
        /\ net[j].exchange = "NFO"
        /\ net[j].product = "MIS"
        /\ net[j].tradingsymbol[1] = TV_MAP[Strip(The(c.payload).index_tv)]
        /\ net[j].quantity # 0 }

\* C19: every admitted exit request of a supported symbol calls positions()
\* itself and decides on that reply alone; the position exited is the first
\* one of the reply's net list that satisfies the four conditions, whatever
\* follows it in the list; the request finds none exactly when no position
\* of the list satisfies them all; and no order is placed for a position of
\* quantity zero.
C19_FirstOpenPosition ==
    (Exit(cur) /\ Supported(cur) /\ ~cur.dup) =>
        /\ cur.pc = "done"
        /\ cur.net = {} <=> cur.resp.reason = "positions failed"
        /\ cur.net = {} => cur.call = {}
        /\ cur.net # {} =>
              LET net == The(cur.net)
              IN  /\ cur.resp.reason = "no open position" <=> Open(net, cur) = {}
                  /\ cur.call = {} <=> Open(net, cur) = {}
                  /\ Open(net, cur) # {} =>
                        LET first == net[Min(Open(net, cur))]
                            o == The(cur.call)
                        IN  /\ o.tradingsymbol = first.tradingsymbol
                            /\ o.quantity = Abs(first.quantity)
                            /\ o.quantity > 0
                            /\ cur.resp.status \in {"ok", "error"}
                            /\ cur.resp.status = "ok" =>
                                  cur.resp.symbol = {first.tradingsymbol}

\* Two open positions of the root in the list: the first one was exited.
C19_Witness ==
    /\ Exit(cur) /\ cur.net # {} /\ cur.call # {}
    /\ Len(The(cur.net)) = 2
    /\ Open(The(cur.net), cur) = {1, 2}
    /\ The(cur.net)[1].tradingsymbol # The(cur.net)[2].tradingsymbol
    /\ The(cur.call).tradingsymbol = The(cur.net)[1].tradingsymbol

====
